---- MODULE Spec2Model ----
(***************************************************************************)
(* Chat session and message synchronisation of the browser client          *)
(* (frontend/src/components/ChatInterface.tsx).                            *)
(*                                                                         *)
(* The component is a set of React state cells and asynchronous handlers.  *)
(* Every action below is one synchronous stretch of a handler: from the    *)
(* user gesture to the first network await, or from the network answer to  *)
(* the end of the handler.  The state updates of one stretch are batched,  *)
(* the component re-renders, and the effects that depend on                *)
(* currentThreadId (persist, loadMessages) run as part of the same step.   *)
(* A handler reads the state cells it closed over when it was invoked, so  *)
(* a pending call keeps the values it captured.                            *)
(*                                                                         *)
(* Timestamps are ISO-8601 strings as written by Date.toISOString on the   *)
(* client and on the server; such a string is represented by the           *)
(* millisecond instant it denotes.  Array.prototype.sort is modelled as    *)
(* the engine runs it on arrays shorter than 64 elements (V8: one run      *)
(* detection followed by a binary insertion sort).                         *)
(***************************************************************************)
EXTENDS Integers, Sequences, FiniteSets, TLC

\* ---------------------------------------------------------------- bounds
MaxClock == 2        \* client clock and server timestamps range over 1..MaxClock
MaxHistory == 2      \* longest message list a history fetch returns
MaxPending == 2      \* most network calls the user has in flight at once
MaxFiles == 2        \* most files the user selects that pass validation
MaxShortHistory == 1 \* longest history answer where only the phase flags are followed

\* ------------------------------------------------------------- value sets
None == "none"                         \* null / undefined thread id, attachment
NoTimestamp == 0                       \* a message without timestamp field
NoImage == [base64 |-> None, type |-> <<>>]   \* imageData when it is null
\* e.target.files?.[0] when the dialog was closed without a file
NoFile == [type |-> <<>>, size |-> 0, bytes |-> None]
Dollar == 100000                       \* units of money in one dollar
NoRender == [from |-> None]                   \* nothing rendered yet
Threads == {"t1", "t2"}                \* opaque thread ids
Roles == {"user", "assistant"}
Instants == 1..MaxClock
Texts == {<<>>, <<"h", "i">>}          \* textarea contents, as character sequences
\* the same with blanks: a blank alone, and blanks around a word
InputTexts == Texts \cup {<<" ">>, <<" ", "h", "i", " ">>}

VARIABLES
    messages,            \* useState<Message[]>
    inputMessage,        \* useState("")
    isLoading,           \* sending flag
    isLoadingMessages,   \* loading-history flag
    imagePreview,        \* pending preview handle or None
    imageData,           \* pending encoded attachment or None
    currentThreadId,     \* useState(localStorage.getItem('currentThreadId'))
    isCreatingThread,    \* creating-thread flag
    localStorage,        \* value stored under 'currentThreadId', None when absent
    clock,               \* last value the client clock was read at
    sendCalls,           \* handleSendMessage calls awaiting the send response
    loadCalls,           \* loadMessages calls awaiting the history response, per thread
    newThreadCalls,      \* handleNewThread calls awaiting the create response
    deleteCalls,         \* handleThreadDelete calls awaiting the delete response
    resolveCalls,        \* getOrCreateThread calls awaiting verify or create
    staleThreadId,       \* the persisted id found at start-up, if its thread is gone remotely
    toasts,              \* error notifications raised by the last step
    lastStep,            \* the handler stretch that ran last, and the value it carried
    uploadingImage,      \* useState(false), true while a file is being read
    encodeCalls,         \* handleFileChange calls awaiting toBase64, by file
    objectURLs,          \* object URLs created and not revoked, with their file
    latestFile,          \* the file of the most recent selection that passed validation
    threads,             \* ThreadList: ids of the rows of the displayed list
    listCalls,           \* ThreadList: fetchThreads calls awaiting the list response
    rendered,            \* the content of the turn rendered last, and its text node
    isOpen,              \* PayoutRequestModal: the isOpen prop
    availableBalance,    \* PayoutRequestModal: prop, in units of money
    minimumPayout,       \* PayoutRequestModal: prop, in units of money
    payoutAmount,        \* PayoutRequestModal: useState('')
    payoutIsLoading,     \* PayoutRequestModal: its isLoading flag
    error,               \* PayoutRequestModal: useState<string | null>(null)
    fee,                 \* PayoutRequestModal: useState(0)
    netAmount,           \* PayoutRequestModal: useState(0)
    payoutCalls,         \* requestPayout calls in flight, by amount
    callbacks            \* the props the last step of the modal called

vars == <<messages, inputMessage, isLoading, isLoadingMessages, imagePreview,
          imageData, currentThreadId, isCreatingThread, localStorage, clock,
          sendCalls, loadCalls, newThreadCalls, deleteCalls, resolveCalls,
          staleThreadId, toasts, lastStep, uploadingImage, encodeCalls, objectURLs,
          latestFile, threads, listCalls, rendered, isOpen, availableBalance,
          minimumPayout, payoutAmount, payoutIsLoading, error, fee, netAmount,
          payoutCalls, callbacks>>

\* the cells of the attachment pipeline, of the thread list, of the renderer
fileVars == <<uploadingImage, encodeCalls, objectURLs, latestFile>>
listVars == <<threads, listCalls>>
payVars == <<isOpen, availableBalance, minimumPayout, payoutAmount, payoutIsLoading,
             error, fee, netAmount, payoutCalls, callbacks>>

\* ------------------------------------------------------------ pure helpers
Step(op, val) == [op |-> op, val |-> val]

\* `msg-${Date.now()}`
ClientId(now) == [kind |-> "msg", n |-> ToString(now)]
\* ids minted by the server: of the i-th message a history lists, and of
\* the reply to the turn the client stamped with instant t
HistoryId(i) == [kind |-> "history", n |-> ToString(i)]
ReplyId(t) == [kind |-> "reply", n |-> ToString(t)]
\* a response without id field
NoId == [kind |-> "none", n |-> "none"]

RECURSIVE trimStart(_)
trimStart(s) ==
    IF s = <<>> THEN <<>>
    ELSE IF Head(s) = " " THEN trimStart(Tail(s)) ELSE s

RECURSIVE trimEnd(_)
trimEnd(s) ==
    IF s = <<>> THEN <<>>
    ELSE IF s[Len(s)] = " " THEN trimEnd(SubSeq(s, 1, Len(s) - 1)) ELSE s

\* String.prototype.trim
trim(s) == trimEnd(trimStart(s))

\* new Date(timestamp).getTime()
getTime(timestamp) == timestamp

\* the comparator without its rule for equal timestamps
compareTurnsByTimeOnly(a, b) == getTime(a.timestamp) - getTime(b.timestamp)

\* the comparator handed to sort by handleSendMessage (both call sites)
compareTurns(a, b) ==
    IF a.timestamp = b.timestamp
    THEN (IF a.role = "user" THEN -1 ELSE 1)
    ELSE getTime(a.timestamp) - getTime(b.timestamp)

\* `${msg.timestamp}_${msg.role === 'user' ? '0' : '1'}`; an absent timestamp
\* prints as "undefined", which collates after every ISO date
sortKey(raw) ==
    <<IF raw.timestamp = NoTimestamp THEN MaxClock + 1 ELSE raw.timestamp,
      IF raw.role = "user" THEN 0 ELSE 1>>

\* a._sortKey.localeCompare(b._sortKey)
localeCompare(k1, k2) ==
    IF k1[1] # k2[1] THEN (IF k1[1] < k2[1] THEN -1 ELSE 1)
    ELSE IF k1[2] # k2[2] THEN (IF k1[2] < k2[2] THEN -1 ELSE 1)
    ELSE 0

\* the comparator of one sort call: "turns" for handleSendMessage,
\* "sortKey" for loadMessages (elements then carry the field key)
Compare(kind, a, b) ==
    IF kind = "turns" THEN compareTurns(a, b) ELSE localeCompare(a.key, b.key)

RECURSIVE RunScan(_, _, _, _)
\* index of the last element of the initial run of arr, scanning from idx
RunScan(kind, arr, descending, idx) ==
    IF idx > Len(arr) THEN idx - 1
    ELSE LET order == Compare(kind, arr[idx], arr[idx - 1])
         IN  IF (descending /\ order >= 0) \/ (~descending /\ order < 0)
             THEN idx - 1
             ELSE RunScan(kind, arr, descending, idx + 1)

Reverse(s) == [i \in 1..Len(s) |-> s[Len(s) + 1 - i]]

\* CountAndMakeRun: length of the initial run, reversed in place if descending
CountAndMakeRun(kind, arr) ==
    IF Len(arr) < 2 THEN [arr |-> arr, run |-> Len(arr)]
    ELSE LET descending == Compare(kind, arr[2], arr[1]) < 0
             run == RunScan(kind, arr, descending, 3)
         IN  [arr |-> IF descending
                      THEN Reverse(SubSeq(arr, 1, run)) \o SubSeq(arr, run + 1, Len(arr))
                      ELSE arr,
              run |-> run]

RECURSIVE BinarySearch(_, _, _, _, _)
\* where pivot belongs in arr[left+1 .. right] (0-based bounds as in the engine)
BinarySearch(kind, arr, pivot, left, right) ==
    IF left >= right THEN left
    ELSE LET mid == left + ((right - left) \div 2)
         IN  IF Compare(kind, pivot, arr[mid + 1]) < 0
             THEN BinarySearch(kind, arr, pivot, left, mid)
             ELSE BinarySearch(kind, arr, pivot, mid + 1, right)

RECURSIVE BinaryInsertionSort(_, _, _)
\* arr[1..start] is sorted; insert arr[start+1], arr[start+2], ...
BinaryInsertionSort(kind, arr, start) ==
    IF start >= Len(arr) THEN arr
    ELSE LET pivot == arr[start + 1]
             left == BinarySearch(kind, arr, pivot, 0, start)
             moved == SubSeq(arr, 1, left) \o <<pivot>> \o SubSeq(arr, left + 1, start)
                      \o SubSeq(arr, start + 2, Len(arr))
         IN  BinaryInsertionSort(kind, moved, start + 1)

\* Array.prototype.sort(comparator)
ArraySort(kind, arr) ==
    LET made == CountAndMakeRun(kind, arr)
    IN  BinaryInsertionSort(kind, made.arr, made.run)

\* the turn built from one element of data.messages, with its temporary key
formatMessage(raw, now) ==
    [id |-> raw.id, role |-> raw.role,
     timestamp |-> IF raw.timestamp = NoTimestamp THEN now ELSE raw.timestamp,
     key |-> sortKey(raw)]

\* ({ _sortKey, ...rest }) => rest
cleanMessage(m) == [id |-> m.id, role |-> m.role, timestamp |-> m.timestamp]

\* loadMessages: data.messages.map(...).sort(...).map(...)
formatMessages(raws, now) ==
    LET formatted == [i \in 1..Len(raws) |-> formatMessage(raws[i], now)]
        sorted == ArraySort("sortKey", formatted)
    IN  [i \in 1..Len(sorted) |-> cleanMessage(sorted[i])]

\* {...userMessage, ...(imagePreview && { imageUrl: imagePreview })}
withImageUrl(userMessage, preview) ==
    IF preview # None
    THEN [id |-> userMessage.id, role |-> userMessage.role,
          timestamp |-> userMessage.timestamp, imageUrl |-> preview]
    ELSE userMessage

\* setMessages(prev => [...prev, turn].sort(comparator))
appendSorted(prev, turn) == ArraySort("turns", Append(prev, turn))

\* ------------------------------------------------------- server answers
\* The server keeps its response schema: every listed message and every
\* reply carries an id, a role and a timestamp, and ids are unique.

RECURSIVE SeqsUpTo(_, _)
SeqsUpTo(S, n) ==
    IF n = 0 THEN {<<>>}
    ELSE LET shorter == SeqsUpTo(S, n - 1)
         IN  shorter \cup {Append(s, x) : s \in {t \in shorter : Len(t) = n - 1}, x \in S}

\* data.messages of a history answer, in the order the server lists them
Histories ==
    {[i \in 1..Len(h) |-> [id |-> HistoryId(i), role |-> h[i].role,
                           timestamp |-> h[i].timestamp]] :
        h \in SeqsUpTo([role : Roles, timestamp : Instants], MaxHistory)}

\* the message list the server keeps for thread t: its messages carry ids of
\* that thread
HistoryOf(t, history) ==
    [i \in 1..Len(history) |->
        [history[i] EXCEPT !.id = [kind |-> "history", n |-> @.n, thread |-> t]]]

\* the assistant turns of the timeline that a history answer listed
Listed(turns) ==
    {[id |-> turns[i].id, timestamp |-> turns[i].timestamp] :
        i \in {j \in 1..Len(turns) :
                   turns[j].role = "assistant" /\ turns[j].id.kind = "history"}}

\* data.response of the answer to pending send s: a reply the server minted
\* for it; a history of its thread fetched while the send was pending may
\* already have listed that reply
Responses(s) ==
    [id : {ReplyId(s.userMessage.timestamp)}, timestamp : Instants]
    \cup (IF s.listed THEN Listed(messages) ELSE {})

\* ------------------------------------------------------------ bookkeeping
LoadsOf(calls) == calls["t1"] + calls["t2"]

\* network calls in flight
Pending ==
    Cardinality(sendCalls) + LoadsOf(loadCalls) + newThreadCalls
    + Cardinality(deleteCalls) + Cardinality(resolveCalls)

\* clock values a later reading of the client clock can return
Later == (clock + 1)..MaxClock

\* a history load answered for thread t: the pending sends that counted it
\* among the loads already in flight when they inserted their turn
LoadAnswered(calls, t, listed) ==
    {[s EXCEPT !.loadsBefore[t] = IF @ > 0 THEN @ - 1 ELSE 0,
               !.listed = IF s.threadId = t THEN listed ELSE FALSE] : s \in calls}

\* ----------------------------------------------------------------- effects
\* a persist effect that writes an id but never removes the stored entry
setCurrentThreadIdKeepsEntry(id) ==
    /\ currentThreadId' = id
    /\ IF id # currentThreadId
       THEN /\ localStorage' = IF id # None THEN id ELSE localStorage
            /\ IF id # None
               THEN /\ loadCalls' = [loadCalls EXCEPT ![id] = @ + 1]
                    /\ isLoadingMessages' = TRUE
               ELSE UNCHANGED <<loadCalls, isLoadingMessages>>
       ELSE UNCHANGED <<localStorage, loadCalls, isLoadingMessages>>

\* setCurrentThreadId(id) followed by the render it causes: the persist
\* effect and the loadMessages effect run only when the id changed, and
\* loadMessages returns at once for a null id
setCurrentThreadId(id) ==
    /\ currentThreadId' = id
    /\ IF id # currentThreadId
       THEN /\ localStorage' = id
            /\ IF id # None
               THEN /\ loadCalls' = [loadCalls EXCEPT ![id] = @ + 1]
                    /\ isLoadingMessages' = TRUE
               ELSE UNCHANGED <<loadCalls, isLoadingMessages>>
       ELSE UNCHANGED <<localStorage, loadCalls, isLoadingMessages>>

\* ------------------------------------------------------------------- Init
\* the component after mount: the id read from storage, and the history
\* load the mount effect started for it; the thread list has fetched its
\* rows once (its buttons are not rendered before that)
Init ==
    /\ messages = <<>>
    /\ inputMessage = <<>>
    /\ isLoading = FALSE
    /\ imagePreview = None
    /\ imageData = NoImage
    /\ localStorage \in Threads \cup {None}
    /\ currentThreadId = localStorage
    /\ isLoadingMessages = (currentThreadId # None)
    /\ loadCalls = [t \in Threads |-> IF t = currentThreadId THEN 1 ELSE 0]
    /\ isCreatingThread = FALSE
    /\ clock = 0
    /\ sendCalls = {}
    /\ newThreadCalls = 0
    /\ deleteCalls = {}
    /\ resolveCalls = {}
    /\ staleThreadId \in {None, localStorage}
    /\ toasts = 0
    /\ lastStep = Step("mount", None)
    /\ uploadingImage = FALSE
    /\ encodeCalls = {}
    /\ objectURLs = {}
    /\ latestFile = NoFile
    /\ threads = Threads \ {staleThreadId}
    /\ listCalls = 0
    /\ rendered = NoRender
    /\ isOpen = FALSE
    /\ availableBalance = 0
    /\ minimumPayout = 10 * Dollar
    /\ payoutAmount = <<>>
    /\ payoutIsLoading = FALSE
    /\ error = None
    /\ fee = 0
    /\ netAmount = 0
    /\ payoutCalls = {}
    /\ callbacks = {}

\* ------------------------------------------------------------ user gestures
\* Textarea onChange (the textarea is disabled while sending)
onChange(text) ==
    /\ ~isLoading
    /\ text # inputMessage
    /\ inputMessage' = text
    /\ toasts' = 0
    /\ lastStep' = Step("onChange", None)
    /\ UNCHANGED <<messages, isLoading, isLoadingMessages, imagePreview, imageData,
                   currentThreadId, isCreatingThread, localStorage, clock, sendCalls,
                   loadCalls, newThreadCalls, deleteCalls, resolveCalls, staleThreadId>>

\* handleThreadSelect, from a row of the thread list
handleThreadSelect(threadId) ==
    /\ Pending < MaxPending
    /\ threadId # staleThreadId
    /\ setCurrentThreadId(threadId)
    /\ toasts' = 0
    /\ lastStep' = Step("handleThreadSelect", None)
    /\ UNCHANGED <<messages, inputMessage, isLoading, imagePreview, imageData,
                   isCreatingThread, clock, sendCalls, newThreadCalls, deleteCalls,
                   resolveCalls, staleThreadId>>

\* a send control that stays enabled while a send is in flight
handleSendMessageWhileSending ==
    /\ IF (trim(inputMessage) = <<>> /\ imageData = NoImage) \/ currentThreadId = None
       THEN /\ lastStep' = Step("handleSendMessage.return", None)
            /\ toasts' = 0
            /\ UNCHANGED <<messages, inputMessage, isLoading, isLoadingMessages,
                           imagePreview, imageData, currentThreadId, isCreatingThread,
                           localStorage, clock, sendCalls, loadCalls, newThreadCalls,
                           deleteCalls, resolveCalls, staleThreadId>>
       ELSE /\ Pending < MaxPending
            /\ \E now \in Later :
                 LET userMessage == withImageUrl([id |-> ClientId(now), role |-> "user",
                                                  timestamp |-> now], imagePreview)
                 IN  /\ messages' = appendSorted(messages, userMessage)
                     /\ clock' = now
                     /\ sendCalls' = sendCalls \cup
                            {[threadId |-> currentThreadId, userMessage |-> userMessage,
                              imageData |-> imageData,
                              loadsBefore |-> loadCalls, listed |-> FALSE]}
            /\ inputMessage' = <<>>
            /\ imageData' = NoImage
            /\ imagePreview' = None
            /\ isLoading' = TRUE
            /\ toasts' = 0
            /\ lastStep' = Step("handleSendMessage.insert", None)
            /\ UNCHANGED <<isLoadingMessages, currentThreadId, isCreatingThread,
                           localStorage, loadCalls, newThreadCalls, deleteCalls,
                           resolveCalls, staleThreadId>>

\* a send whose guard takes the text as typed, blanks included
handleSendMessageUntrimmed ==
    /\ ~isLoading
    /\ IF (inputMessage = <<>> /\ imageData = NoImage) \/ currentThreadId = None
       THEN /\ lastStep' = Step("handleSendMessage.return", None)
            /\ toasts' = 0
            /\ UNCHANGED <<messages, inputMessage, isLoading, isLoadingMessages,
                           imagePreview, imageData, currentThreadId, isCreatingThread,
                           localStorage, clock, sendCalls, loadCalls, newThreadCalls,
                           deleteCalls, resolveCalls, staleThreadId>>
       ELSE /\ Pending < MaxPending
            /\ \E now \in Later :
                 LET userMessage == withImageUrl([id |-> ClientId(now), role |-> "user",
                                                  timestamp |-> now], imagePreview)
                 IN  /\ messages' = appendSorted(messages, userMessage)
                     /\ clock' = now
                     /\ sendCalls' = sendCalls \cup
                            {[threadId |-> currentThreadId, userMessage |-> userMessage,
                              imageData |-> imageData,
                              loadsBefore |-> loadCalls, listed |-> FALSE]}
            /\ inputMessage' = <<>>
            /\ imageData' = NoImage
            /\ imagePreview' = None
            /\ isLoading' = TRUE
            /\ toasts' = 0
            /\ lastStep' = Step("handleSendMessage.insert", None)
            /\ UNCHANGED <<isLoadingMessages, currentThreadId, isCreatingThread,
                           localStorage, loadCalls, newThreadCalls, deleteCalls,
                           resolveCalls, staleThreadId>>

\* handleSendMessage up to its first await; the Send button and the Enter
\* key reach it only while isLoading is false
handleSendMessage ==
    /\ ~isLoading
    /\ IF (trim(inputMessage) = <<>> /\ imageData = NoImage) \/ currentThreadId = None
       THEN /\ lastStep' = Step("handleSendMessage.return", None)
            /\ toasts' = 0
            /\ UNCHANGED <<messages, inputMessage, isLoading, isLoadingMessages,
                           imagePreview, imageData, currentThreadId, isCreatingThread,
                           localStorage, clock, sendCalls, loadCalls, newThreadCalls,
                           deleteCalls, resolveCalls, staleThreadId>>
       ELSE /\ Pending < MaxPending
            /\ \E now \in Later :
                 LET userMessage == withImageUrl([id |-> ClientId(now), role |-> "user",
                                                  timestamp |-> now], imagePreview)
                 IN  /\ messages' = appendSorted(messages, userMessage)
                     /\ clock' = now
                     /\ sendCalls' = sendCalls \cup
                            {[threadId |-> currentThreadId, userMessage |-> userMessage,
                              imageData |-> imageData,
                              loadsBefore |-> loadCalls, listed |-> FALSE]}
            /\ inputMessage' = <<>>
            /\ imageData' = NoImage
            /\ imagePreview' = None
            /\ isLoading' = TRUE
            /\ toasts' = 0
            /\ lastStep' = Step("handleSendMessage.insert", None)
            /\ UNCHANGED <<isLoadingMessages, currentThreadId, isCreatingThread,
                           localStorage, loadCalls, newThreadCalls, deleteCalls,
                           resolveCalls, staleThreadId>>

\* handleNewThread up to its first await (the New Chat button is disabled
\* while isCreatingThread)
handleNewThread ==
    /\ ~isCreatingThread
    /\ Pending < MaxPending
    /\ isCreatingThread' = TRUE
    /\ newThreadCalls' = newThreadCalls + 1
    /\ toasts' = 0
    /\ lastStep' = Step("handleNewThread", None)
    /\ UNCHANGED <<messages, inputMessage, isLoading, isLoadingMessages, imagePreview,
                   imageData, currentThreadId, localStorage, clock, sendCalls, loadCalls,
                   deleteCalls, resolveCalls, staleThreadId>>

\* handleThreadDelete up to its first await, from the delete button of a row
handleThreadDelete(threadId) ==
    /\ Pending < MaxPending
    /\ threadId # staleThreadId
    /\ \A d \in deleteCalls : d.threadId # threadId
    /\ deleteCalls' = deleteCalls \cup
           {[threadId |-> threadId, wasCurrent |-> (currentThreadId = threadId)]}
    /\ toasts' = 0
    /\ lastStep' = Step("handleThreadDelete", None)
    /\ UNCHANGED <<messages, inputMessage, isLoading, isLoadingMessages, imagePreview,
                   imageData, currentThreadId, isCreatingThread, localStorage, clock,
                   sendCalls, loadCalls, newThreadCalls, resolveCalls, staleThreadId>>

\* --------------------------------------------------------- network answers
\* a 404 answer handled as a failure: the timeline stays and a toast is shown
loadNotFoundAsError(t) ==
    /\ loadCalls[t] > 0
    /\ loadCalls' = [loadCalls EXCEPT ![t] = @ - 1]
    /\ sendCalls' = LoadAnswered(sendCalls, t, FALSE)
    /\ isLoadingMessages' = FALSE
    /\ toasts' = 1
    /\ lastStep' = Step("loadMessages.404", t)
    /\ UNCHANGED <<messages, inputMessage, isLoading, imagePreview, imageData,
                   currentThreadId, isCreatingThread, localStorage, clock, newThreadCalls,
                   deleteCalls, resolveCalls, staleThreadId>>

\* loadMessages after its fetch for thread t answered 404
loadNotFound(t) ==
    /\ loadCalls[t] > 0
    /\ loadCalls' = [loadCalls EXCEPT ![t] = @ - 1]
    /\ sendCalls' = LoadAnswered(sendCalls, t, FALSE)
    /\ messages' = <<>>
    /\ isLoadingMessages' = FALSE
    /\ toasts' = 0
    /\ lastStep' = Step("loadMessages.404", t)
    /\ UNCHANGED <<inputMessage, isLoading, imagePreview, imageData, currentThreadId,
                   isCreatingThread, localStorage, clock, newThreadCalls, deleteCalls,
                   resolveCalls, staleThreadId>>

\* loadMessages after a 2xx answer carrying {success, messages: history}
loadHydrate(t, history) ==
    /\ loadCalls[t] > 0
    /\ t # staleThreadId
    /\ loadCalls' = [loadCalls EXCEPT ![t] = @ - 1]
    /\ sendCalls' = LoadAnswered(sendCalls, t, TRUE)
    /\ messages' = formatMessages(HistoryOf(t, history), clock)
    /\ isLoadingMessages' = FALSE
    /\ toasts' = 0
    /\ lastStep' = Step("loadMessages.ok", t)
    /\ UNCHANGED <<inputMessage, isLoading, imagePreview, imageData, currentThreadId,
                   isCreatingThread, localStorage, clock, newThreadCalls, deleteCalls,
                   resolveCalls, staleThreadId>>

\* loadMessages after a 2xx answer without success or without a message array
loadEmpty(t) ==
    /\ loadCalls[t] > 0
    /\ t # staleThreadId
    /\ loadCalls' = [loadCalls EXCEPT ![t] = @ - 1]
    /\ sendCalls' = LoadAnswered(sendCalls, t, FALSE)
    /\ messages' = <<>>
    /\ isLoadingMessages' = FALSE
    /\ toasts' = 0
    /\ lastStep' = Step("loadMessages.empty", t)
    /\ UNCHANGED <<inputMessage, isLoading, imagePreview, imageData, currentThreadId,
                   isCreatingThread, localStorage, clock, newThreadCalls, deleteCalls,
                   resolveCalls, staleThreadId>>

\* loadMessages after a non-404 error answer or a failed fetch: the thrown
\* message names neither THREAD_NOT_FOUND nor 404, so the toast is shown
loadFailed(t) ==
    /\ loadCalls[t] > 0
    /\ loadCalls' = [loadCalls EXCEPT ![t] = @ - 1]
    /\ sendCalls' = LoadAnswered(sendCalls, t, FALSE)
    /\ isLoadingMessages' = FALSE
    /\ toasts' = 1
    /\ lastStep' = Step("loadMessages.error", t)
    /\ UNCHANGED <<messages, inputMessage, isLoading, imagePreview, imageData,
                   currentThreadId, isCreatingThread, localStorage, clock, newThreadCalls,
                   deleteCalls, resolveCalls, staleThreadId>>

\* the assistant turn built from data.response; a missing id or timestamp
\* falls back to the client clock
aiMessage(response, now) ==
    [id |-> IF response.id = NoId THEN ClientId(now) ELSE response.id,
     role |-> "assistant",
     timestamp |-> IF response.timestamp = NoTimestamp THEN now ELSE response.timestamp]

\* a rebind that compares the returned id with the id current at the answer
sendSucceededRebindsLive(s, response, threadId) ==
    /\ s \in sendCalls
    /\ threadId # staleThreadId \/ threadId = None
    /\ sendCalls' = sendCalls \ {s}
    /\ messages' = appendSorted(messages, aiMessage(response, clock))
    /\ IF threadId # None /\ threadId # currentThreadId
       THEN setCurrentThreadId(threadId)
       ELSE UNCHANGED <<currentThreadId, localStorage, loadCalls, isLoadingMessages>>
    /\ inputMessage' = <<>>
    /\ imageData' = NoImage
    /\ imagePreview' = None
    /\ isLoading' = FALSE
    /\ toasts' = 0
    /\ lastStep' = Step("handleSendMessage.ok", threadId)
    /\ UNCHANGED <<isCreatingThread, clock, newThreadCalls, deleteCalls, resolveCalls,
                   staleThreadId>>

\* handleSendMessage after a 2xx answer {success, response, threadId}
sendSucceeded(s, response, threadId) ==
    /\ s \in sendCalls
    /\ threadId # staleThreadId \/ threadId = None
    /\ sendCalls' = sendCalls \ {s}
    /\ messages' = appendSorted(messages, aiMessage(response, clock))
    /\ IF threadId # None /\ threadId # s.threadId
       THEN setCurrentThreadId(threadId)
       ELSE UNCHANGED <<currentThreadId, localStorage, loadCalls, isLoadingMessages>>
    /\ inputMessage' = <<>>
    /\ imageData' = NoImage
    /\ imagePreview' = None
    /\ isLoading' = FALSE
    /\ toasts' = 0
    /\ lastStep' = Step("handleSendMessage.ok", threadId)
    /\ UNCHANGED <<isCreatingThread, clock, newThreadCalls, deleteCalls, resolveCalls,
                   staleThreadId>>

\* a failure path that takes the optimistic turn back out of the timeline
sendFailedRollback(s) ==
    /\ s \in sendCalls
    /\ sendCalls' = sendCalls \ {s}
    /\ LET Kept(m) == m # s.userMessage
       IN  messages' = SelectSeq(messages, Kept)
    /\ inputMessage' = <<>>
    /\ imageData' = NoImage
    /\ imagePreview' = None
    /\ isLoading' = FALSE
    /\ toasts' = 1
    /\ lastStep' = Step("handleSendMessage.error", None)
    /\ UNCHANGED <<isLoadingMessages, currentThreadId, isCreatingThread,
                   localStorage, clock, loadCalls, newThreadCalls, deleteCalls,
                   resolveCalls, staleThreadId>>

\* handleSendMessage after no token, a non-2xx answer, a failed fetch, or a
\* 2xx answer without success/response: catch, then finally
sendFailed(s) ==
    /\ s \in sendCalls
    /\ sendCalls' = sendCalls \ {s}
    /\ inputMessage' = <<>>
    /\ imageData' = NoImage
    /\ imagePreview' = None
    /\ isLoading' = FALSE
    /\ toasts' = 1
    /\ lastStep' = Step("handleSendMessage.error", None)
    /\ UNCHANGED <<messages, isLoadingMessages, currentThreadId, isCreatingThread,
                   localStorage, clock, loadCalls, newThreadCalls, deleteCalls,
                   resolveCalls, staleThreadId>>

\* handleNewThread after a 2xx answer; threadId is None when the body has none
newThreadAnswered(threadId) ==
    /\ newThreadCalls > 0
    /\ threadId # staleThreadId \/ threadId = None
    /\ newThreadCalls' = newThreadCalls - 1
    /\ IF threadId # None
       THEN /\ setCurrentThreadId(threadId)
            /\ messages' = <<>>
       ELSE UNCHANGED <<currentThreadId, localStorage, loadCalls, isLoadingMessages,
                        messages>>
    /\ isCreatingThread' = FALSE
    /\ toasts' = 0
    /\ lastStep' = Step("handleNewThread.ok", threadId)
    /\ UNCHANGED <<inputMessage, isLoading, imagePreview, imageData, clock, sendCalls,
                   deleteCalls, resolveCalls, staleThreadId>>

\* a failure path without the finally: the creating-thread flag stays set
newThreadFailedKeepsFlag ==
    /\ newThreadCalls > 0
    /\ newThreadCalls' = newThreadCalls - 1
    /\ toasts' = 1
    /\ lastStep' = Step("handleNewThread.error", None)
    /\ UNCHANGED <<messages, inputMessage, isLoading, isLoadingMessages, imagePreview,
                   imageData, currentThreadId, isCreatingThread, localStorage, clock,
                   sendCalls, loadCalls, deleteCalls, resolveCalls, staleThreadId>>

\* handleNewThread after no token, a non-2xx answer or a failed fetch
newThreadFailed ==
    /\ newThreadCalls > 0
    /\ newThreadCalls' = newThreadCalls - 1
    /\ isCreatingThread' = FALSE
    /\ toasts' = 1
    /\ lastStep' = Step("handleNewThread.error", None)
    /\ UNCHANGED <<messages, inputMessage, isLoading, isLoadingMessages, imagePreview,
                   imageData, currentThreadId, localStorage, clock, sendCalls, loadCalls,
                   deleteCalls, resolveCalls, staleThreadId>>

\* handleThreadDelete after a 2xx answer (the list then reports success)
deleteSucceeded(d) ==
    /\ d \in deleteCalls
    /\ deleteCalls' = deleteCalls \ {d}
    /\ IF d.wasCurrent
       THEN /\ messages' = <<>>
            /\ setCurrentThreadId(None)
       ELSE UNCHANGED <<messages, currentThreadId, localStorage, loadCalls,
                        isLoadingMessages>>
    /\ toasts' = 0
    /\ lastStep' = Step("handleThreadDelete.ok", None)
    /\ UNCHANGED <<inputMessage, isLoading, imagePreview, imageData, isCreatingThread,
                   clock, sendCalls, newThreadCalls, resolveCalls, staleThreadId>>

\* handleThreadDelete rethrows; ThreadList.handleDeleteThread shows the toast
deleteFailed(d) ==
    /\ d \in deleteCalls
    /\ deleteCalls' = deleteCalls \ {d}
    /\ toasts' = 1
    /\ lastStep' = Step("handleThreadDelete.error", d.threadId)
    /\ UNCHANGED <<messages, inputMessage, isLoading, isLoadingMessages, imagePreview,
                   imageData, currentThreadId, isCreatingThread, localStorage, clock,
                   sendCalls, loadCalls, newThreadCalls, resolveCalls, staleThreadId>>

\* ------------------------------------------------------ getOrCreateThread
\* getOrCreateThread(token) up to its first await: the verify fetch when an
\* id is held, the create fetch otherwise
getOrCreateThread ==
    /\ Pending < MaxPending
    /\ resolveCalls = {}
    /\ resolveCalls' = {[stage |-> IF currentThreadId # None THEN "verify" ELSE "create",
                         threadId |-> currentThreadId]}
    /\ toasts' = 0
    /\ lastStep' = Step("getOrCreateThread", None)
    /\ UNCHANGED <<messages, inputMessage, isLoading, isLoadingMessages, imagePreview,
                   imageData, currentThreadId, isCreatingThread, localStorage, clock,
                   sendCalls, loadCalls, newThreadCalls, deleteCalls, staleThreadId>>

\* verifyResp.ok: the held id is returned
verifyOk(c) ==
    /\ c \in resolveCalls
    /\ c.stage = "verify"
    /\ c.threadId # staleThreadId
    /\ resolveCalls' = resolveCalls \ {c}
    /\ toasts' = 0
    /\ lastStep' = Step("getOrCreateThread.verified", c.threadId)
    /\ UNCHANGED <<messages, inputMessage, isLoading, isLoadingMessages, imagePreview,
                   imageData, currentThreadId, isCreatingThread, localStorage, clock,
                   sendCalls, loadCalls, newThreadCalls, deleteCalls, staleThreadId>>

\* the verify fetch answered not-ok or threw: the id is cleared and the
\* create fetch is issued
verifyFailed(c) ==
    /\ c \in resolveCalls
    /\ c.stage = "verify"
    /\ resolveCalls' = (resolveCalls \ {c}) \cup {[c EXCEPT !.stage = "create"]}
    /\ setCurrentThreadId(None)
    /\ toasts' = 0
    /\ lastStep' = Step("getOrCreateThread.cleared", None)
    /\ UNCHANGED <<messages, inputMessage, isLoading, imagePreview, imageData,
                   isCreatingThread, clock, sendCalls, newThreadCalls, deleteCalls,
                   staleThreadId>>

\* a create answer whose id is returned without being made the current id
createOkUnset(c, threadId) ==
    /\ c \in resolveCalls
    /\ c.stage = "create"
    /\ threadId # staleThreadId
    /\ resolveCalls' = resolveCalls \ {c}
    /\ toasts' = 0
    /\ lastStep' = Step("getOrCreateThread.created", threadId)
    /\ UNCHANGED <<messages, inputMessage, isLoading, isLoadingMessages, imagePreview,
                   imageData, currentThreadId, isCreatingThread, localStorage, clock,
                   sendCalls, loadCalls, newThreadCalls, deleteCalls, staleThreadId>>

\* newThreadResp.ok with a threadId: it becomes the current id and is returned
createOk(c, threadId) ==
    /\ c \in resolveCalls
    /\ c.stage = "create"
    /\ threadId # staleThreadId
    /\ resolveCalls' = resolveCalls \ {c}
    /\ setCurrentThreadId(threadId)
    /\ toasts' = 0
    /\ lastStep' = Step("getOrCreateThread.created", threadId)
    /\ UNCHANGED <<messages, inputMessage, isLoading, imagePreview, imageData,
                   isCreatingThread, clock, sendCalls, newThreadCalls, deleteCalls,
                   staleThreadId>>

\* the create fetch answered not-ok, without threadId, or threw: toast, rethrow
createFailed(c) ==
    /\ c \in resolveCalls
    /\ c.stage = "create"
    /\ resolveCalls' = resolveCalls \ {c}
    /\ toasts' = 1
    /\ lastStep' = Step("getOrCreateThread.throw", None)
    /\ UNCHANGED <<messages, inputMessage, isLoading, isLoadingMessages, imagePreview,
                   imageData, currentThreadId, isCreatingThread, localStorage, clock,
                   sendCalls, loadCalls, newThreadCalls, deleteCalls, staleThreadId>>

\* ------------------------------------------------------------ attachments
MiB == 1024 * 1024
MaxFileSize == 20 * MiB

IMAGE_PNG == <<"i", "m", "a", "g", "e", "/", "p", "n", "g">>
TEXT_PLAIN == <<"t", "e", "x", "t", "/", "p", "l", "a", "i", "n">>
\* file.type values: two registered types, "image" without a slash, and the
\* empty string of a file whose type the browser does not know
MediaTypes == {IMAGE_PNG, TEXT_PLAIN, <<"i", "m", "a", "g", "e">>, <<>>}
FileSizes == {19 * MiB, MaxFileSize, MaxFileSize + 1, 21 * MiB}

\* the files the user can pick: declared type, size in bytes, contents
Files == [type : MediaTypes, size : FileSizes, bytes : {"A", "B"}]
\* a small choice of them: two images within the cap, an image over it,
\* and a text file
FewFiles ==
    {[type |-> IMAGE_PNG, size |-> 19 * MiB, bytes |-> "A"],
     [type |-> IMAGE_PNG, size |-> MaxFileSize, bytes |-> "B"],
     [type |-> IMAGE_PNG, size |-> 21 * MiB, bytes |-> "A"],
     [type |-> TEXT_PLAIN, size |-> 19 * MiB, bytes |-> "B"]}

\* String.prototype.startsWith
startsWith(str, prefix) ==
    /\ Len(str) >= Len(prefix)
    /\ SubSeq(str, 1, Len(prefix)) = prefix

\* the checks with a cap that turns a file of exactly 20 MiB away
validateBelowCap(file) ==
    IF ~startsWith(file.type, <<"i", "m", "a", "g", "e", "/">>)
    THEN "Invalid file type"
    ELSE IF file.size >= 20 * 1024 * 1024
         THEN "File too large"
         ELSE "ok"

\* the two checks of handleFileChange: the title of the notification a file
\* is turned away with, or "ok"
validate(file) ==
    IF ~startsWith(file.type, <<"i", "m", "a", "g", "e", "/">>)
    THEN "Invalid file type"
    ELSE IF file.size > 20 * 1024 * 1024
         THEN "File too large"
         ELSE "ok"

\* base64 text of the contents of a file
Base64(bytes) ==
    CASE bytes = "A" -> "QQ=="
      [] bytes = "B" -> "Qg=="
      [] OTHER -> ""

\* reader.result of readAsDataURL, as result.split(',') sees it: the header
\* "data:<type>;base64" and the encoded contents
readAsDataURL(file) == <<[scheme |-> "data", type |-> file.type], Base64(file.bytes)>>

\* resolve(result.split(',')[1] || '')
toBase64(file) ==
    LET parts == readAsDataURL(file)
    IN  IF Len(parts) >= 2 /\ parts[2] # "" THEN parts[2] ELSE ""

\* URL.createObjectURL: a URL no live object URL has
createObjectURL == ToString(Cardinality(objectURLs) + 1)

\* a handler that raises the uploading flag before it validates the file
handleFileChangeFlagFirst(file) ==
    /\ file \notin encodeCalls
    /\ IF file = NoFile
       THEN /\ toasts' = 0
            /\ lastStep' = Step("handleFileChange.return", None)
            /\ UNCHANGED fileVars
       ELSE IF validate(file) # "ok"
       THEN /\ toasts' = 1
            /\ lastStep' = Step("handleFileChange.reject", file)
            /\ uploadingImage' = TRUE
            /\ UNCHANGED <<encodeCalls, objectURLs, latestFile>>
       ELSE /\ Cardinality(objectURLs) + Cardinality(encodeCalls) < MaxFiles
            /\ uploadingImage' = TRUE
            /\ encodeCalls' = encodeCalls \cup {file}
            /\ latestFile' = file
            /\ toasts' = 0
            /\ lastStep' = Step("handleFileChange.read", file)
            /\ UNCHANGED objectURLs
    /\ UNCHANGED <<messages, inputMessage, isLoading, isLoadingMessages, imagePreview,
                   imageData, currentThreadId, isCreatingThread, localStorage, clock,
                   sendCalls, loadCalls, newThreadCalls, deleteCalls, resolveCalls,
                   staleThreadId>>

\* handleFileChange up to its await: the file input's change event.  The
\* input keeps its value until the read ends, so the file being read is not
\* announced again.
handleFileChange(file) ==
    /\ file \notin encodeCalls
    /\ IF file = NoFile
       THEN /\ toasts' = 0
            /\ lastStep' = Step("handleFileChange.return", None)
            /\ UNCHANGED fileVars
       ELSE IF validate(file) # "ok"
       THEN /\ toasts' = 1
            /\ lastStep' = Step("handleFileChange.reject", file)
            /\ UNCHANGED fileVars
       ELSE /\ Cardinality(objectURLs) + Cardinality(encodeCalls) < MaxFiles
            /\ uploadingImage' = TRUE
            /\ encodeCalls' = encodeCalls \cup {file}
            /\ latestFile' = file
            /\ toasts' = 0
            /\ lastStep' = Step("handleFileChange.read", file)
            /\ UNCHANGED objectURLs
    /\ UNCHANGED <<messages, inputMessage, isLoading, isLoadingMessages, imagePreview,
                   imageData, currentThreadId, isCreatingThread, localStorage, clock,
                   sendCalls, loadCalls, newThreadCalls, deleteCalls, resolveCalls,
                   staleThreadId>>

\* a resolved read that sets the attachment and leaves the preview as it was
encodeResolvedDataOnly(file) ==
    /\ file \in encodeCalls
    /\ encodeCalls' = encodeCalls \ {file}
    /\ imageData' = [base64 |-> toBase64(file), type |-> file.type]
    /\ objectURLs' = objectURLs \cup {[url |-> createObjectURL, file |-> file]}
    /\ uploadingImage' = FALSE
    /\ toasts' = 0
    /\ lastStep' = Step("handleFileChange.set", file)
    /\ UNCHANGED <<messages, inputMessage, isLoading, isLoadingMessages, imagePreview,
                   currentThreadId, isCreatingThread, localStorage, clock, sendCalls,
                   loadCalls, newThreadCalls, deleteCalls, resolveCalls, staleThreadId,
                   latestFile>>

\* handleFileChange after toBase64 resolved: the attachment and its preview
\* are set, then finally
encodeResolved(file) ==
    /\ file \in encodeCalls
    /\ encodeCalls' = encodeCalls \ {file}
    /\ imageData' = [base64 |-> toBase64(file), type |-> file.type]
    /\ imagePreview' = createObjectURL
    /\ objectURLs' = objectURLs \cup {[url |-> createObjectURL, file |-> file]}
    /\ uploadingImage' = FALSE
    /\ toasts' = 0
    /\ lastStep' = Step("handleFileChange.set", file)
    /\ UNCHANGED <<messages, inputMessage, isLoading, isLoadingMessages,
                   currentThreadId, isCreatingThread, localStorage, clock, sendCalls,
                   loadCalls, newThreadCalls, deleteCalls, resolveCalls, staleThreadId,
                   latestFile>>

\* handleFileChange after the reader reported an error: catch, then finally
encodeRejected(file) ==
    /\ file \in encodeCalls
    /\ encodeCalls' = encodeCalls \ {file}
    /\ latestFile' = IF latestFile = file THEN NoFile ELSE latestFile
    /\ uploadingImage' = FALSE
    /\ toasts' = 1
    /\ lastStep' = Step("handleFileChange.error", file)
    /\ UNCHANGED <<messages, inputMessage, isLoading, isLoadingMessages, imagePreview,
                   imageData, currentThreadId, isCreatingThread, localStorage, clock,
                   sendCalls, loadCalls, newThreadCalls, deleteCalls, resolveCalls,
                   staleThreadId, objectURLs>>

\* ------------------------------------------------------------- ThreadList
\* the fetchThreads effect: it runs after a render in which currentThreadId
\* or isCreatingThread changed
fetchThreads ==
    listCalls' = IF \/ currentThreadId' # currentThreadId
                    \/ isCreatingThread' # isCreatingThread
                 THEN listCalls + 1
                 ELSE listCalls

\* a step of ChatInterface seen from the thread list: the rows stay, the
\* effect may run
InList(A) == A /\ fetchThreads /\ UNCHANGED <<threads, fileVars, rendered, payVars>>

\* a click on a row of the list
onThreadSelect(threadId) ==
    /\ threadId \in threads
    /\ listCalls < MaxPending
    /\ InList(handleThreadSelect(threadId))

\* a click on New Chat
onNewThread ==
    /\ listCalls < MaxPending
    /\ InList(handleNewThread)

\* handleDeleteThread, confirmed in the dialog, up to its await
handleDeleteThread(threadId) ==
    /\ threadId \in threads
    /\ listCalls < MaxPending
    /\ InList(handleThreadDelete(threadId))

\* handleDeleteThread after onThreadDelete returned: the row is removed
handleDeleteThreadDone(d) ==
    /\ deleteSucceeded(d)
    /\ threads' = threads \ {d.threadId}
    /\ fetchThreads
    /\ UNCHANGED <<fileVars, rendered, payVars>>

\* a failure path that removes the row all the same
handleDeleteThreadFailedRemoves(d) ==
    /\ deleteFailed(d)
    /\ threads' = threads \ {d.threadId}
    /\ fetchThreads
    /\ UNCHANGED <<fileVars, rendered, payVars>>

\* handleDeleteThread after onThreadDelete threw: catch, then finally
handleDeleteThreadFailed(d) ==
    /\ deleteFailed(d)
    /\ fetchThreads
    /\ UNCHANGED <<threads, fileVars, rendered, payVars>>

\* fetchThreads answered: list is data.threads when the body has success and
\* an array, and empty otherwise
threadsFetched(list) ==
    /\ listCalls > 0
    /\ listCalls' = listCalls - 1
    /\ threads' = list
    /\ toasts' = 0
    /\ lastStep' = Step("fetchThreads.ok", None)
    /\ UNCHANGED <<messages, inputMessage, isLoading, isLoadingMessages, imagePreview,
                   imageData, currentThreadId, isCreatingThread, localStorage, clock,
                   sendCalls, loadCalls, newThreadCalls, deleteCalls, resolveCalls,
                   staleThreadId, fileVars, rendered, payVars>>

\* fetchThreads failed: catch, then finally
threadsFailed ==
    /\ listCalls > 0
    /\ listCalls' = listCalls - 1
    /\ toasts' = 1
    /\ lastStep' = Step("fetchThreads.error", None)
    /\ UNCHANGED <<messages, inputMessage, isLoading, isLoadingMessages, imagePreview,
                   imageData, currentThreadId, isCreatingThread, localStorage, clock,
                   sendCalls, loadCalls, newThreadCalls, deleteCalls, resolveCalls,
                   staleThreadId, threads, fileVars, rendered, payVars>>

\* ------------------------------------------------------ message contents
\* JSON values as the client holds them after response.json(): a primitive
\* with its spelling, or an object with its fields
Str(s) == [t |-> "string", s |-> s]
Num(s) == [t |-> "number", s |-> s]
Bool(s) == [t |-> "boolean", s |-> s]
Null == [t |-> "null", s |-> "null"]
Undefined == [t |-> "undefined", s |-> "undefined"]
Obj(fields) == [t |-> "object", f |-> fields]

Primitives ==
    {Str(""), Str("hello"), Str("hi"), Num("0"), Num("5"), Bool("true"), Bool("false"),
     Null}
\* objects around a value v: {content: v}, {content: v, meta: "m"}
Envelopes(v) == {Obj([content |-> v]), Obj([content |-> v, meta |-> Str("m")])}
Shallow == UNION {Envelopes(v) : v \in Primitives} \cup {Obj([meta |-> Str("m")])}
Nested == UNION {Envelopes(v) : v \in Shallow}
Contents == Primitives \cup Shallow \cup Nested

\* v.name, and v?.name: undefined for a missing field and for a primitive
Get(v, name) ==
    IF v.t = "object" /\ name \in DOMAIN v.f THEN v.f[name] ELSE Undefined

\* ToBoolean
truthy(v) ==
    CASE v.t = "string" -> v.s # ""
      [] v.t = "number" -> v.s # "0"
      [] v.t = "boolean" -> v.s = "true"
      [] v.t = "object" -> TRUE
      [] OTHER -> FALSE

\* a || b
Or(a, b) == IF truthy(a) THEN a ELSE b

\* the content a history message is stored with: msg.content
historyContent(msg) == Get(msg, "content")

\* the content a reply is stored with: data.response.content || data.response
replyContent(response) == Or(Get(response, "content"), response)

\* typeof msg.content === 'string' ? msg.content : msg.content?.content || ''
contentChild(content) ==
    IF content.t = "string" THEN content ELSE Or(Get(content, "content"), Str(""))

\* what React makes of a child: the text of a string or number, nothing for
\* null, undefined and booleans, and an error thrown for an object
Throws == "Objects are not valid as a React child"
childText(child) ==
    CASE child.t \in {"string", "number"} -> child.s
      [] child.t = "object" -> Throws
      [] OTHER -> ""

\* the list shows a turn a history load stored
renderHistoryTurn(msg) ==
    /\ rendered' = [from |-> "history", content |-> historyContent(msg),
                    text |-> childText(contentChild(historyContent(msg)))]
    /\ UNCHANGED <<messages, inputMessage, isLoading, isLoadingMessages, imagePreview,
                   imageData, currentThreadId, isCreatingThread, localStorage, clock,
                   sendCalls, loadCalls, newThreadCalls, deleteCalls, resolveCalls,
                   staleThreadId, toasts, lastStep, fileVars, listVars, payVars>>

\* the list shows a turn built from a send response
renderReply(response) ==
    /\ rendered' = [from |-> "reply", content |-> replyContent(response),
                    text |-> childText(contentChild(replyContent(response)))]
    /\ UNCHANGED <<messages, inputMessage, isLoading, isLoadingMessages, imagePreview,
                   imageData, currentThreadId, isCreatingThread, localStorage, clock,
                   sendCalls, loadCalls, newThreadCalls, deleteCalls, resolveCalls,
                   staleThreadId, toasts, lastStep, fileVars, listVars, payVars>>

\* data.messages entries and data.response values by their content
HistoryMessages ==
    {Obj([id |-> Str("m1"), content |-> c]) : c \in Contents}
    \cup {Obj([id |-> Str("m1")])}
SendResponses ==
    {Obj([id |-> Str("m1"), content |-> c]) : c \in Contents}
    \cup {Obj([id |-> Str("m1")]), Str("hello")}

\* ------------------------------------------------------------------- Next
\* a step of ChatInterface with no file selected and the thread list and the
\* renderer left as they are
Chat(A) == A /\ UNCHANGED <<fileVars, listVars, rendered, payVars>>

Next ==
    \/ \E text \in Texts : Chat(onChange(text))
    \/ \E t \in Threads : Chat(handleThreadSelect(t))
    \/ Chat(handleSendMessage)
    \/ Chat(handleNewThread)
    \/ \E t \in Threads : Chat(handleThreadDelete(t))
    \/ \E t \in Threads : Chat(loadNotFound(t))
    \/ \E t \in Threads, h \in Histories : Chat(loadHydrate(t, h))
    \/ \E t \in Threads : Chat(loadEmpty(t))
    \/ \E t \in Threads : Chat(loadFailed(t))
    \/ \E s \in sendCalls : \E r \in Responses(s), t \in Threads \cup {None} :
            Chat(sendSucceeded(s, r, t))
    \/ \E s \in sendCalls : Chat(sendFailed(s))
    \/ \E t \in Threads \cup {None} : Chat(newThreadAnswered(t))
    \/ Chat(newThreadFailed)
    \/ \E d \in deleteCalls : Chat(deleteSucceeded(d))
    \/ \E d \in deleteCalls : Chat(deleteFailed(d))

Spec == Init /\ [][Next]_vars

\* The component never calls getOrCreateThread; this specification runs
\* calls of it among the handlers that change the current thread id (thread
\* list gestures, their answers, and history loads that find no thread or fail).
NextResolve ==
    \/ \E t \in Threads : Chat(handleThreadSelect(t))
    \/ Chat(handleNewThread)
    \/ \E t \in Threads : Chat(handleThreadDelete(t))
    \/ \E t \in Threads : Chat(loadNotFound(t))
    \/ \E t \in Threads : Chat(loadFailed(t))
    \/ \E t \in Threads \cup {None} : Chat(newThreadAnswered(t))
    \/ Chat(newThreadFailed)
    \/ \E d \in deleteCalls : Chat(deleteSucceeded(d))
    \/ \E d \in deleteCalls : Chat(deleteFailed(d))
    \/ Chat(getOrCreateThread)
    \/ \E c \in resolveCalls : Chat(verifyOk(c))
    \/ \E c \in resolveCalls : Chat(verifyFailed(c))
    \/ \E c \in resolveCalls, t \in Threads : Chat(createOk(c, t))
    \/ \E c \in resolveCalls : Chat(createFailed(c))

SpecResolve == Init /\ [][NextResolve]_vars

\* The timeline under optimistic inserts and reconciles alone: the text box,
\* sends and their answers.
NextTimeline ==
    \/ \E text \in Texts : Chat(onChange(text))
    \/ Chat(handleSendMessage)
    \/ \E s \in sendCalls : \E r \in Responses(s), t \in Threads \cup {None} :
            Chat(sendSucceeded(s, r, t))
    \/ \E s \in sendCalls : Chat(sendFailed(s))

SpecTimeline == Init /\ [][NextTimeline]_vars

\* Every way the current thread id changes: the thread handlers with
\* getOrCreateThread, and sends with their rebind.
NextIdentity ==
    \/ NextResolve
    \/ NextTimeline

SpecIdentity == Init /\ [][NextIdentity]_vars

\* The phases of the controller (sending, loading history, creating a
\* thread) with every remote call answered sooner or later: a pending send,
\* history load or thread creation does not wait for ever.
ShortHistories == {h \in Histories : Len(h) <= MaxShortHistory}

NextPhases ==
    \/ \E text \in Texts : Chat(onChange(text))
    \/ \E t \in Threads : Chat(handleThreadSelect(t))
    \/ Chat(handleSendMessage)
    \/ Chat(handleNewThread)
    \/ \E t \in Threads : Chat(loadNotFound(t))
    \/ \E t \in Threads, h \in ShortHistories : Chat(loadHydrate(t, h))
    \/ \E t \in Threads : Chat(loadEmpty(t))
    \/ \E t \in Threads : Chat(loadFailed(t))
    \/ \E s \in sendCalls : \E r \in Responses(s), t \in Threads \cup {None} :
            Chat(sendSucceeded(s, r, t))
    \/ \E s \in sendCalls : Chat(sendFailed(s))
    \/ \E t \in Threads \cup {None} : Chat(newThreadAnswered(t))
    \/ Chat(newThreadFailed)

\* the answers of the three kinds of remote call; each is taken sooner or later
sendAnswers ==
    \/ \E s \in sendCalls : Chat(sendFailed(s))
    \/ \E s \in sendCalls : \E r \in Responses(s), t \in Threads \cup {None} :
            Chat(sendSucceeded(s, r, t))

loadAnswers ==
    \/ \E t \in Threads : Chat(loadNotFound(t)) \/ Chat(loadEmpty(t)) \/ Chat(loadFailed(t))
    \/ \E t \in Threads, h \in ShortHistories : Chat(loadHydrate(t, h))

newThreadAnswers ==
    \/ \E t \in Threads \cup {None} : Chat(newThreadAnswered(t))
    \/ Chat(newThreadFailed)

SpecPhases ==
    /\ Init
    /\ [][NextPhases]_vars
    /\ WF_vars(sendAnswers)
    /\ WF_vars(loadAnswers)
    /\ WF_vars(newThreadAnswers)

\* The attachment pipeline with the text box and sends.
Picker(A) == A /\ UNCHANGED <<listVars, rendered, payVars>>

NextAttach ==
    \/ \E text \in InputTexts : Chat(onChange(text))
    \/ \E file \in FewFiles \cup {NoFile} : Picker(handleFileChange(file))
    \/ \E file \in encodeCalls : Picker(encodeResolved(file))
    \/ \E file \in encodeCalls : Picker(encodeRejected(file))
    \/ Chat(handleSendMessage)
    \/ \E s \in sendCalls : \E r \in Responses(s) : Chat(sendSucceeded(s, r, None))
    \/ \E s \in sendCalls : Chat(sendFailed(s))

SpecAttach == Init /\ [][NextAttach]_vars

\* The send control: the attachment pipeline, the text box and sends, with
\* the history load of the mounted thread answered.
NextSending ==
    \/ NextAttach
    \/ \E t \in Threads : Chat(loadNotFound(t))
    \/ \E t \in Threads : Chat(loadEmpty(t))

SpecSending == Init /\ [][NextSending]_vars

\* File selection alone, over every file.
NextValidate ==
    \/ \E file \in Files \cup {NoFile} : Picker(handleFileChange(file))
    \/ \E file \in encodeCalls : Picker(encodeResolved(file))
    \/ \E file \in encodeCalls : Picker(encodeRejected(file))

SpecValidate == Init /\ [][NextValidate]_vars

\* The thread list with the handlers ChatInterface passes to it.
NextThreadList ==
    \/ \E t \in Threads : onThreadSelect(t)
    \/ onNewThread
    \/ \E t \in Threads : handleDeleteThread(t)
    \/ \E d \in deleteCalls : handleDeleteThreadDone(d)
    \/ \E d \in deleteCalls : handleDeleteThreadFailed(d)
    \/ \E list \in SUBSET (Threads \ {staleThreadId}) : threadsFetched(list)
    \/ threadsFailed
    \/ \E t \in Threads : InList(loadNotFound(t))
    \/ \E t \in Threads : InList(loadEmpty(t))
    \/ \E t \in Threads : InList(loadFailed(t))
    \/ \E t \in Threads \cup {None} : InList(newThreadAnswered(t))
    \/ InList(newThreadFailed)

SpecThreadList == Init /\ [][NextThreadList]_vars

\* The renderer over every stored content.
NextRender ==
    \/ \E msg \in HistoryMessages : renderHistoryTurn(msg)
    \/ \E response \in SendResponses : renderReply(response)

SpecRender == Init /\ [][NextRender]_vars

\* ------------------------------------------------------ PayoutRequestModal
\* Money is counted in units, Dollar units to the dollar, so that amounts of
\* whole cents and their 2.9% are integers.
NaN == [nan |-> TRUE, v |-> 0]
Number(v) == [nan |-> FALSE, v |-> v]

DigitChars == {"0", "1", "2", "3", "4", "5", "6", "7", "8", "9"}
DigitOf(c) ==
    CASE c = "0" -> 0 [] c = "1" -> 1 [] c = "2" -> 2 [] c = "3" -> 3 [] c = "4" -> 4
      [] c = "5" -> 5 [] c = "6" -> 6 [] c = "7" -> 7 [] c = "8" -> 8 [] c = "9" -> 9

\* the length of the run of digits of str that starts at position i
RECURSIVE DigitRun(_, _)
DigitRun(str, i) ==
    IF i <= Len(str) /\ str[i] \in DigitChars THEN 1 + DigitRun(str, i + 1) ELSE 0

\* the number the n digits of str from position i spell
RECURSIVE DigitsValue(_, _, _)
DigitsValue(str, i, n) ==
    IF n = 0 THEN 0 ELSE DigitsValue(str, i, n - 1) * 10 + DigitOf(str[i + n - 1])

RECURSIVE Pow10(_)
Pow10(n) == IF n = 0 THEN 1 ELSE 10 * Pow10(n - 1)

\* whether str has one of chars at position i
HasChar(str, i, chars) == i <= Len(str) /\ str[i] \in chars

\* the decimal literal found at the front of str: its sign, the lengths of
\* its integer digits, fraction and exponent, its magnitude in units and the
\* position after it
literal(str, start, intLen, fracLen, mantEnd, expStart, expLen) ==
    [plus |-> HasChar(str, 1, {"+"}),
     negative |-> HasChar(str, 1, {"-"}),
     intLen |-> intLen,
     hasDot |-> HasChar(str, start + intLen, {"."}),
     fracLen |-> fracLen,
     expLen |-> expLen,
     magnitude |->
         IF expLen = 0
         THEN DigitsValue(str, start, intLen) * Dollar
              + (DigitsValue(str, start + intLen + 1, fracLen) * Dollar) \div Pow10(fracLen)
         ELSE IF HasChar(str, mantEnd + 1, {"-"})
         THEN (DigitsValue(str, start, intLen) * Dollar
               + (DigitsValue(str, start + intLen + 1, fracLen) * Dollar)
                 \div Pow10(fracLen))
              \div Pow10(DigitsValue(str, expStart, expLen))
         ELSE (DigitsValue(str, start, intLen) * Dollar
               + (DigitsValue(str, start + intLen + 1, fracLen) * Dollar)
                 \div Pow10(fracLen))
              * Pow10(DigitsValue(str, expStart, expLen)),
     end |-> IF expLen > 0 THEN expStart + expLen ELSE mantEnd]

\* the exponent part: "e" or "E", an optional sign, digits
scanExponent(str, start, intLen, fracLen, mantEnd, expStart) ==
    literal(str, start, intLen, fracLen, mantEnd, expStart,
            IF HasChar(str, mantEnd, {"e", "E"}) THEN DigitRun(str, expStart) ELSE 0)

scanMantissaEnd(str, start, intLen, fracLen, mantEnd) ==
    scanExponent(str, start, intLen, fracLen, mantEnd,
                 mantEnd + 1 + (IF HasChar(str, mantEnd + 1, {"+", "-"}) THEN 1 ELSE 0))

\* the fraction: "." and digits
scanFraction(str, start, intLen, fracLen) ==
    scanMantissaEnd(str, start, intLen, fracLen,
                    IF HasChar(str, start + intLen, {"."}) /\ intLen + fracLen > 0
                    THEN start + intLen + 1 + fracLen
                    ELSE start + intLen)

\* the integer digits
scanInteger(str, start, intLen) ==
    scanFraction(str, start, intLen,
                 IF HasChar(str, start + intLen, {"."})
                 THEN DigitRun(str, start + intLen + 1) ELSE 0)

scanSign(str, start) == scanInteger(str, start, DigitRun(str, start))

\* the longest decimal literal str starts with
scanDecimal(str) == scanSign(str, IF HasChar(str, 1, {"+", "-"}) THEN 2 ELSE 1)

NumberOf(scan) ==
    IF scan.intLen + scan.fracLen = 0 THEN NaN
    ELSE Number(IF scan.negative THEN 0 - scan.magnitude ELSE scan.magnitude)

\* parseFloat: the number the longest decimal literal at the front of the
\* trimmed string spells, NaN when there is none
parseFloat(string) == NumberOf(scanDecimal(trimStart(string)))

isNaN(number) == number.nan

\* whether typed, scanned as scan, is a valid floating-point number
validFloat(typed, scan) ==
    /\ typed # <<>>
    /\ ~scan.plus
    /\ scan.intLen + scan.fracLen > 0
    /\ scan.hasDot => scan.fracLen > 0
    /\ scan.end = Len(typed) + 1

\* the value of <Input type="number"> after the user typed text: the text
\* when it is a valid floating-point number, the empty string otherwise
inputValue(typed) == IF validFloat(typed, scanDecimal(typed)) THEN typed ELSE <<>>

\* what the user types into the amount box
Typed ==
    {<<>>, <<"0">>, <<"5">>, <<"1", "0">>, <<"1", "0", ".", "5">>, <<"5", "0">>,
     <<"6", "0">>, <<"0", ".", "3">>, <<"0", ".", "3", "1">>, <<"-", "5">>,
     <<"1", "e", "1">>, <<"a", "b", "c">>, <<"1", "2", "a", "b", "c">>}
Balances == {5 * Dollar, 10 * Dollar, 50 * Dollar}
Minimums == {(30 * Dollar) \div 100, 10 * Dollar}
Errors == {"Please enter a valid payout amount", "Amount exceeds your available balance",
           "Minimum payout amount", "Failed to request payout", "Insufficient funds"}

\* the values the amount box can hold
BoxValues == {inputValue(typed) : typed \in Typed}

Min(x, y) == IF x <= y THEN x ELSE y

\* the fee effect without the cap at the amount
calculatedFeeUncapped(amount) == (amount * 29) \div 1000 + (30 * Dollar) \div 100

\* Math.min(amount * (feePercent / 100) + fixedFee, amount)
calculatedFee(amount) == Min((amount * 29) \div 1000 + (30 * Dollar) \div 100, amount)

\* the effect on [payoutAmount]: fee and net amount of the amount in the box
feeEffect(amountText) ==
    IF amountText = <<>> \/ isNaN(parseFloat(amountText))
    THEN [fee |-> 0, netAmount |-> 0]
    ELSE LET amount == parseFloat(amountText).v
         IN  [fee |-> calculatedFee(amount), netAmount |-> amount - calculatedFee(amount)]

\* the page opens the modal with the balance and the minimum it fetched
openModal(balance, minimum) ==
    /\ ~isOpen
    /\ payoutCalls = {}
    /\ isOpen' = TRUE
    /\ availableBalance' = balance
    /\ minimumPayout' = minimum
    /\ callbacks' = {}
    /\ lastStep' = Step("openModal", None)
    /\ UNCHANGED <<payoutAmount, payoutIsLoading, error, fee, netAmount, payoutCalls>>

\* onChange of the amount box (disabled while a request is in flight), with
\* the fee effect its state change triggers
setPayoutAmount(typed) ==
    /\ isOpen
    /\ ~payoutIsLoading
    /\ inputValue(typed) # payoutAmount
    /\ payoutAmount' = inputValue(typed)
    /\ fee' = feeEffect(inputValue(typed)).fee
    /\ netAmount' = feeEffect(inputValue(typed)).netAmount
    /\ callbacks' = {}
    /\ lastStep' = Step("setPayoutAmount", None)
    /\ UNCHANGED <<isOpen, availableBalance, minimumPayout, payoutIsLoading, error,
                   payoutCalls>>

\* a submit handler that does not compare the amount with the balance
handleSubmitAnyBalance ==
    /\ isOpen
    /\ ~payoutIsLoading
    /\ callbacks' = {}
    /\ LET number == parseFloat(payoutAmount)
       IN  IF payoutAmount = <<>> \/ isNaN(number) \/ number.v <= 0
           THEN /\ error' = "Please enter a valid payout amount"
                /\ lastStep' = Step("handleSubmit.invalid", None)
                /\ UNCHANGED <<payoutIsLoading, payoutCalls>>
           ELSE IF number.v < minimumPayout
           THEN /\ error' = "Minimum payout amount"
                /\ lastStep' = Step("handleSubmit.invalid", None)
                /\ UNCHANGED <<payoutIsLoading, payoutCalls>>
           ELSE /\ payoutIsLoading' = TRUE
                /\ error' = None
                /\ payoutCalls' = payoutCalls \cup {number.v}
                /\ lastStep' = Step("handleSubmit.request", None)
    /\ UNCHANGED <<isOpen, availableBalance, minimumPayout, payoutAmount, fee, netAmount>>

\* handleSubmit up to its await: the submit event of the form.  In a browser
\* the disabled state of the submit button and the min and max of the box
\* keep most unacceptable amounts from reaching it; it is taken here for
\* every value the box can hold while no request is in flight.
handleSubmit ==
    /\ isOpen
    /\ ~payoutIsLoading
    /\ callbacks' = {}
    /\ LET number == parseFloat(payoutAmount)
       IN  IF payoutAmount = <<>> \/ isNaN(number) \/ number.v <= 0
           THEN /\ error' = "Please enter a valid payout amount"
                /\ lastStep' = Step("handleSubmit.invalid", None)
                /\ UNCHANGED <<payoutIsLoading, payoutCalls>>
           ELSE IF number.v > availableBalance
           THEN /\ error' = "Amount exceeds your available balance"
                /\ lastStep' = Step("handleSubmit.invalid", None)
                /\ UNCHANGED <<payoutIsLoading, payoutCalls>>
           ELSE IF number.v < minimumPayout
           THEN /\ error' = "Minimum payout amount"
                /\ lastStep' = Step("handleSubmit.invalid", None)
                /\ UNCHANGED <<payoutIsLoading, payoutCalls>>
           ELSE /\ payoutIsLoading' = TRUE
                /\ error' = None
                /\ payoutCalls' = payoutCalls \cup {number.v}
                /\ lastStep' = Step("handleSubmit.request", None)
    /\ UNCHANGED <<isOpen, availableBalance, minimumPayout, payoutAmount, fee, netAmount>>

\* handleSubmit after requestPayout answered success: the two props are
\* called and the page closes the modal
payoutSucceeded(amount) ==
    /\ amount \in payoutCalls
    /\ payoutCalls' = payoutCalls \ {amount}
    /\ callbacks' = {"onPayoutRequested", "onClose"}
    /\ isOpen' = FALSE
    /\ payoutIsLoading' = FALSE
    /\ lastStep' = Step("handleSubmit.ok", None)
    /\ UNCHANGED <<availableBalance, minimumPayout, payoutAmount, error, fee, netAmount>>

\* handleSubmit after requestPayout answered without success (a non-2xx
\* answer, a failed fetch, or success: false), with the message it carries
payoutFailed(amount, message) ==
    /\ amount \in payoutCalls
    /\ payoutCalls' = payoutCalls \ {amount}
    /\ error' = message
    /\ callbacks' = {}
    /\ payoutIsLoading' = FALSE
    /\ lastStep' = Step("handleSubmit.error", None)
    /\ UNCHANGED <<isOpen, availableBalance, minimumPayout, payoutAmount, fee, netAmount>>

\* the X and Cancel buttons (disabled while a request is in flight)
onClose ==
    /\ isOpen
    /\ ~payoutIsLoading
    /\ callbacks' = {"onClose"}
    /\ isOpen' = FALSE
    /\ lastStep' = Step("onClose", None)
    /\ UNCHANGED <<availableBalance, minimumPayout, payoutAmount, payoutIsLoading,
                   error, fee, netAmount, payoutCalls>>

\* The payout request form.
Modal(A) ==
    A /\ UNCHANGED <<messages, inputMessage, isLoading, isLoadingMessages, imagePreview,
                     imageData, currentThreadId, isCreatingThread, localStorage, clock,
                     sendCalls, loadCalls, newThreadCalls, deleteCalls, resolveCalls,
                     staleThreadId, toasts, fileVars, listVars, rendered>>

NextPayout ==
    \/ \E balance \in Balances, minimum \in Minimums : Modal(openModal(balance, minimum))
    \/ \E typed \in Typed : Modal(setPayoutAmount(typed))
    \/ Modal(handleSubmit)
    \/ \E amount \in payoutCalls : Modal(payoutSucceeded(amount))
    \/ \E amount \in payoutCalls :
          \E message \in {"Failed to request payout", "Insufficient funds"} :
             Modal(payoutFailed(amount, message))
    \/ Modal(onClose)

SpecPayout == Init /\ [][NextPayout]_vars

\* what the message area shows: the pulse placeholder, the "No messages
\* yet" note, or the list of turns
view ==
    IF isLoading \/ isLoadingMessages THEN "placeholder"
    ELSE IF Len(messages) = 0 THEN "No messages yet"
    ELSE "messages"

\* ---------------------------------------------------------------- typing
Range(s) == {s[i] : i \in 1..Len(s)}

TypeOK ==
    /\ inputMessage \in InputTexts
    /\ isLoading \in BOOLEAN /\ isLoadingMessages \in BOOLEAN /\ isCreatingThread \in BOOLEAN
    /\ currentThreadId \in Threads \cup {None}
    /\ localStorage \in Threads \cup {None}
    /\ clock \in 0..MaxClock
    /\ \A i \in 1..Len(messages) :
          messages[i].role \in Roles /\ messages[i].timestamp \in Instants
    /\ toasts \in {0, 1}
    /\ imagePreview \in {None} \cup {o.url : o \in objectURLs}
    /\ imageData \in {NoImage} \cup [base64 : {"QQ==", "Qg=="}, type : MediaTypes]
    /\ uploadingImage \in BOOLEAN
    /\ encodeCalls \subseteq Files
    /\ latestFile \in Files \cup {NoFile}
    /\ threads \subseteq Threads
    /\ listCalls \in Nat
    /\ isOpen \in BOOLEAN /\ payoutIsLoading \in BOOLEAN
    /\ availableBalance \in Balances \cup {0}
    /\ minimumPayout \in Minimums
    /\ payoutAmount \in BoxValues
    /\ error \in Errors \cup {None}
    /\ fee \in Int /\ netAmount \in Int
    /\ payoutCalls \subseteq Nat
    /\ callbacks \subseteq {"onPayoutRequested", "onClose"}

\* ================================================================ claims

\* C1: the timeline never holds an assistant turn in front of a user turn
\* that has the same timestamp.
C1_UserBeforeAssistant ==
    \A i, j \in 1..Len(messages) :
        (i < j /\ messages[i].timestamp = messages[j].timestamp)
            => ~(messages[i].role = "assistant" /\ messages[j].role = "user")

\* C1 witness: an optimistic insert has just placed its user turn directly in
\* front of an assistant turn that carries the same timestamp.
C1_Witness ==
    /\ lastStep.op = "handleSendMessage.insert"
    /\ \E i \in 1..Len(messages) - 1 :
          /\ messages[i].id = ClientId(clock)
          /\ messages[i + 1].role = "assistant"
          /\ messages[i + 1].timestamp = messages[i].timestamp

\* C2 (as claimed): a send invoked with non-empty text while no thread id is
\* held puts one optimistic user turn into the timeline in the same step.
C2_SendWithoutThreadInserts ==
    [][(/\ lastStep'.op \in {"handleSendMessage.return", "handleSendMessage.insert"}
        /\ trim(inputMessage) # <<>>
        /\ currentThreadId = None)
       => (/\ Len(messages') = Len(messages) + 1
           /\ \E i \in 1..Len(messages') :
                 messages'[i].role = "user" /\ messages'[i].id.kind = "msg")]_vars

\* C3 (as claimed): when the send whose optimistic turn is the only turn of
\* the timeline succeeds with a reply and thread id t, the timeline is that
\* user turn followed by the assistant reply, whatever the reply's timestamp,
\* and the persisted thread id is t.
C3_ReplyFollowsPrompt ==
    [][\A s \in sendCalls :
          (/\ sendCalls' = sendCalls \ {s}
           /\ lastStep'.op = "handleSendMessage.ok"
           /\ lastStep'.val # None
           /\ messages = <<s.userMessage>>)
          => (/\ Len(messages') = 2
              /\ messages'[1] = s.userMessage
              /\ messages'[2].role = "assistant"
              /\ localStorage' = lastStep'.val)]_vars

\* C4: the step that handles a failed send leaves the timeline as it was (the
\* optimistic user turn stays, no assistant turn is added), raises exactly one
\* error notification, leaves the current and the persisted thread id
\* unchanged and sets the sending flag to false.
C4_SendFailureKeepsTurn ==
    [][\A s \in sendCalls :
          (sendCalls' = sendCalls \ {s} /\ lastStep'.op = "handleSendMessage.error")
          => (/\ messages' = messages
              /\ toasts' = 1
              /\ currentThreadId' = currentThreadId
              /\ localStorage' = localStorage
              /\ isLoading' = FALSE)]_vars

\* C4 witness: a send has just failed; its optimistic user turn is the whole
\* timeline, one notification was raised and the sending flag is false.
C4_Witness ==
    /\ lastStep.op = "handleSendMessage.error"
    /\ Len(messages) = 1
    /\ messages[1].role = "user"
    /\ messages[1].id.kind = "msg"
    /\ toasts = 1
    /\ ~isLoading

\* C5 (as claimed): the answer to a history load that was in flight when a
\* pending send inserted its optimistic user turn does not remove that turn.
C5_LateLoadKeepsOptimisticTurn ==
    [][\A s \in sendCalls : \A t \in Threads :
          (/\ loadCalls'[t] < loadCalls[t]
           /\ s.loadsBefore[t] > 0
           /\ s.userMessage \in Range(messages))
          => s.userMessage \in Range(messages')]_vars

\* C6 (as claimed): the reply of a send is added to the timeline only when
\* the current thread id equals the thread id the send targeted; otherwise
\* the timeline is left as it was.
C6_ReplyOnlyIntoItsThread ==
    [][\A s \in sendCalls :
          (/\ sendCalls' = sendCalls \ {s}
           /\ lastStep'.op = "handleSendMessage.ok"
           /\ currentThreadId # s.threadId)
          => messages' = messages]_vars

\* C7 (as claimed): a persisted id whose thread is gone remotely is never
\* carried by a send, and once no check of it is pending it is neither the
\* current nor the persisted id.
C7_StaleIdNeverUsed ==
    staleThreadId # None =>
        /\ \A s \in sendCalls : s.threadId # staleThreadId
        /\ loadCalls[staleThreadId] = 0 =>
              (currentThreadId # staleThreadId /\ localStorage # staleThreadId)

\* C8: when getOrCreateThread clears the held id after a failed verification
\* the current and persisted id are none; when its create call then returns
\* thread id t2 the function returns t2 and the current and persisted id are
\* t2; neither step raises an error notification.
C8_ResolveReplacesStaleId ==
    /\ lastStep.op = "getOrCreateThread.cleared"
          => (currentThreadId = None /\ localStorage = None /\ toasts = 0)
    /\ lastStep.op = "getOrCreateThread.created"
          => (/\ lastStep.val \in Threads
              /\ currentThreadId = lastStep.val
              /\ localStorage = lastStep.val
              /\ lastStep.val # staleThreadId
              /\ toasts = 0)

\* C8 witness: the id found at start-up was stale, its verification failed,
\* and the create call has just returned another id.
C8_Witness ==
    /\ lastStep.op = "getOrCreateThread.created"
    /\ staleThreadId # None
    /\ currentThreadId # staleThreadId
    /\ localStorage = currentThreadId

\* C9 (as claimed): no two turns of the timeline share an id.
C9_UniqueIds ==
    \A i, j \in 1..Len(messages) : i # j => messages[i].id # messages[j].id

\* C10 (as claimed): at most one of the flags loading-history, sending and
\* creating-thread is true.
C10_FlagsExclusive ==
    /\ ~(isLoadingMessages /\ isLoading)
    /\ ~(isLoadingMessages /\ isCreatingThread)
    /\ ~(isLoading /\ isCreatingThread)

\* C11 (as claimed): a create request is issued only while no thread
\* creation, no send and no history load is in flight.
C11_NewThreadOnlyWhenIdle ==
    [][newThreadCalls' > newThreadCalls
          => ~(isCreatingThread \/ isLoading \/ isLoadingMessages)]_vars

\* C12: the step that handles a failed remote delete reports the error to the
\* caller, which shows one notification, and leaves the current thread id,
\* the persisted id, the timeline and the rows of the thread list unchanged.
C12_DeleteFailureChangesNothing ==
    [][\A d \in deleteCalls :
          (deleteCalls' = deleteCalls \ {d} /\ lastStep'.op = "handleThreadDelete.error")
          => (/\ toasts' = 1
              /\ currentThreadId' = currentThreadId
              /\ localStorage' = localStorage
              /\ messages' = messages
              /\ threads' = threads)]_vars

\* C12 witness: the delete of the current thread has just failed; the thread
\* is still current, persisted and listed.
C12_Witness ==
    /\ lastStep.op = "handleThreadDelete.error"
    /\ lastStep.val = currentThreadId
    /\ localStorage = currentThreadId
    /\ currentThreadId \in threads
    /\ toasts = 1

\* C13: a send invoked with no text or blanks only, and no pending attachment,
\* adds no turn, issues no request and changes no flag and no input state.
C13_BlankSendRejected ==
    [][(/\ lastStep'.op \in {"handleSendMessage.return", "handleSendMessage.insert"}
        /\ \A i \in 1..Len(inputMessage) : inputMessage[i] = " "
        /\ imageData = NoImage)
       => (/\ messages' = messages
           /\ sendCalls' = sendCalls
           /\ isLoading' = isLoading
           /\ isLoadingMessages' = isLoadingMessages
           /\ isCreatingThread' = isCreatingThread
           /\ inputMessage' = inputMessage
           /\ imageData' = imageData
           /\ imagePreview' = imagePreview
           /\ currentThreadId' = currentThreadId
           /\ toasts' = 0)]_vars

\* C13 witness: a send of a single blank, with a thread held and no
\* attachment, has just returned; the blank is still in the text box.
C13_Witness ==
    /\ lastStep.op = "handleSendMessage.return"
    /\ inputMessage = <<" ">>
    /\ imageData = NoImage
    /\ currentThreadId # None
    /\ sendCalls = {}

\* C14 (as claimed): while a send awaits its answer its optimistic user turn
\* is in the timeline and the message area shows the list of turns; when the
\* send is accepted the text box and the pending attachment are empty.
C14_OptimisticTurnVisible ==
    [][\A s \in sendCalls' :
          /\ s.userMessage \in Range(messages')
          /\ view' = "messages"
          /\ s \notin sendCalls
                => (/\ inputMessage' = <<>>
                    /\ imageData' = NoImage
                    /\ imagePreview' = None)]_vars

\* C15: a selected file passes validation exactly when its declared type
\* begins with "image/" and its size is at most 20 MiB (20971520 bytes).
C15_ValidateImageWithinCap ==
    LET file == lastStep.val
        fits == /\ Len(file.type) >= 6
                /\ SubSeq(file.type, 1, 6) = <<"i", "m", "a", "g", "e", "/">>
                /\ file.size <= 20971520
    IN  /\ lastStep.op = "handleFileChange.read" => fits
        /\ lastStep.op = "handleFileChange.reject" => ~fits

\* C15 witness: an image of exactly 20 MiB has just passed validation.
C15_Witness ==
    /\ lastStep.op = "handleFileChange.read"
    /\ lastStep.val.type = IMAGE_PNG
    /\ lastStep.val.size = 20971520
    /\ lastStep.val \in encodeCalls

\* C16 (as claimed): the text shown for a turn is its content when that is a
\* string, the content field of its content when that is an object with a
\* string in that field, and the empty string for any other content.
C16_ContentNormalized ==
    rendered.from # None =>
        LET c == rendered.content
        IN  rendered.text =
               IF c.t = "string" THEN c.s
               ELSE IF /\ c.t = "object"
                       /\ "content" \in DOMAIN c.f
                       /\ c.f.content.t = "string"
                    THEN c.f.content.s
                    ELSE ""

\* C17 (as claimed): when a file has just become the pending attachment and
\* no read is pending, the attachment and the preview are those of the file
\* selected last.
C17_LatestSelectionPending ==
    (lastStep.op = "handleFileChange.set" /\ encodeCalls = {} /\ latestFile # NoFile)
        => /\ imageData = [base64 |-> Base64(latestFile.bytes), type |-> latestFile.type]
           /\ \E o \in objectURLs : o.url = imagePreview /\ o.file = latestFile

\* C18 (as claimed): every object URL that was created and not released is
\* the pending preview or the image of a turn of the timeline.
C18_NoPreviewLeft ==
    \A o \in objectURLs :
        \/ o.url = imagePreview
        \/ \E i \in 1..Len(messages) :
              "imageUrl" \in DOMAIN messages[i] /\ messages[i].imageUrl = o.url

C20_CreateFailureSurfaced ==
    [][(/\ newThreadCalls' < newThreadCalls
        /\ \/ lastStep'.op = "handleNewThread.error"
           \/ lastStep'.op = "handleNewThread.ok" /\ lastStep'.val = None)
       => (/\ toasts' = 1
           /\ currentThreadId' = currentThreadId
           /\ localStorage' = localStorage
           /\ messages' = messages
           /\ ~isCreatingThread')]_vars

\* C21: the persisted thread id is the current thread id, and storage holds
\* no entry when the current id is none, after every step that changes the
\* current id (select, new thread, rebind, delete, verify-clear).
C21_PersistedMirrorsCurrent ==
    localStorage = currentThreadId

\* C21 witness: the id held at start-up was stale and getOrCreateThread has
\* just cleared it; the current id is none and storage holds no entry.
C21_Witness ==
    /\ lastStep.op = "getOrCreateThread.cleared"
    /\ staleThreadId # None
    /\ currentThreadId = None
    /\ localStorage = None

\* C22: the step that handles a successful send makes the returned thread id
\* current exactly when the answer carries one and it differs from the id the
\* send carried; otherwise it leaves the current id as it is, whatever thread
\* the user switched to meanwhile.
C22_RebindOnlyToNewId ==
    [][\A s \in sendCalls :
          (sendCalls' = sendCalls \ {s} /\ lastStep'.op = "handleSendMessage.ok")
          => currentThreadId' =
                IF lastStep'.val # None /\ lastStep'.val # s.threadId
                THEN lastStep'.val
                ELSE currentThreadId]_vars

\* C22 witness: a send that carried the stale start-up id has just succeeded
\* with another thread id, which is now current and being loaded.
C22_Witness ==
    /\ lastStep.op = "handleSendMessage.ok"
    /\ staleThreadId # None
    /\ lastStep.val \notin {None, staleThreadId}
    /\ currentThreadId = lastStep.val
    /\ loadCalls[currentThreadId] > 0
    /\ \E i \in 1..Len(messages) : messages[i].role = "assistant"

\* C23: once every remote call is answered, a sending flag that is true
\* becomes false, a loading-history flag that is true becomes false, and a
\* creating-thread flag that is true becomes false.
C23_PhasesEnd ==
    /\ isLoading ~> ~isLoading
    /\ isLoadingMessages ~> ~isLoadingMessages
    /\ isCreatingThread ~> ~isCreatingThread

\* C23 witness: a thread creation has just failed while nothing else was in
\* flight, and all three flags are false.
C23_Witness ==
    /\ lastStep.op = "handleNewThread.error"
    /\ Pending = 0
    /\ ~isLoading
    /\ ~isLoadingMessages
    /\ ~isCreatingThread

\* C24 (as claimed): every step leaves the timeline sorted in non-decreasing
\* timestamp order, and an optimistic insert or a reconcile leaves the turns
\* that a history load stored in the order they had.
C24_TimelineStaysOrdered ==
    [][/\ \A i, j \in 1..Len(messages') :
             i < j => messages'[i].timestamp <= messages'[j].timestamp
       /\ lastStep'.op \in {"handleSendMessage.insert", "handleSendMessage.ok"}
            => \A i, j \in 1..Len(messages) :
                  (i < j /\ messages[i].id.kind = "history"
                         /\ messages[j].id.kind = "history")
                  => \E k, l \in 1..Len(messages') :
                        k < l /\ messages'[k] = messages[i]
                              /\ messages'[l] = messages[j]]_vars

\* C25 (as claimed): when a history answer has just been stored and no
\* history load is left in flight, the server's turns in the timeline are
\* turns of the current thread.
C25_TimelineOfCurrentThread ==
    (/\ lastStep.op = "loadMessages.ok"
     /\ LoadsOf(loadCalls) = 0
     /\ currentThreadId # None)
    => \A i \in 1..Len(messages) :
          messages[i].id.kind = "history" => messages[i].id.thread = currentThreadId

\* C26 (as claimed): when the history load of the current thread has just
\* failed with a hard error, exactly one notification is shown and the
\* timeline holds no server turn of another thread.
C26_HardLoadFailure ==
    (/\ lastStep.op = "loadMessages.error"
     /\ lastStep.val = currentThreadId)
    => /\ toasts = 1
       /\ \A i \in 1..Len(messages) :
             messages[i].id.kind = "history" => messages[i].id.thread = currentThreadId

\* C27 (as claimed): the step that handles the confirmed delete of thread T
\* leaves a current thread id other than T, and when T was the current
\* thread at that moment it leaves the timeline empty and no persisted id.
C27_DeletedThreadNotCurrent ==
    [][\A d \in deleteCalls :
          (deleteCalls' = deleteCalls \ {d} /\ lastStep'.op = "handleThreadDelete.ok")
          => /\ currentThreadId' # d.threadId
             /\ currentThreadId = d.threadId
                   => (messages' = <<>> /\ localStorage' = None)]_vars

\* C28: at most one send request is in flight, and the sending flag is true
\* while it is.
C28_OneSendInFlight ==
    /\ Cardinality(sendCalls) <= 1
    /\ sendCalls # {} => isLoading

\* C28 witness: a send is in flight and an attachment picked meanwhile is
\* ready, so only the sending flag keeps the send control from firing.
C28_Witness ==
    /\ Cardinality(sendCalls) = 1
    /\ isLoading
    /\ imageData # NoImage
    /\ currentThreadId # None
    /\ lastStep.op = "handleFileChange.set"

\* C29 (as claimed): the loading-history flag is true whenever at least one
\* history load is in flight.
C29_LoadingWhileAnyLoad == LoadsOf(loadCalls) > 0 => isLoadingMessages

\* C30 (as claimed): the step that completes a send, successfully or not,
\* leaves an attachment that was encoded while the send was in flight as the
\* pending attachment, data and preview.
C30_AttachmentOutlivesSend ==
    [][(/\ lastStep'.op \in {"handleSendMessage.ok", "handleSendMessage.error"}
        /\ sendCalls' # sendCalls
        /\ imageData # NoImage)
       => (imageData' = imageData /\ imagePreview' = imagePreview)]_vars

\* C31: the pending attachment is null exactly when the pending preview is
\* null, and when both are set the preview is the object URL of the file the
\* attachment was encoded from.
C31_AttachmentWithPreview ==
    /\ imageData = NoImage <=> imagePreview = None
    /\ imageData # NoImage
          => \E o \in objectURLs :
                /\ o.url = imagePreview
                /\ imageData = [base64 |-> toBase64(o.file), type |-> o.file.type]

\* C31 witness: a second file has just been encoded while the first one was
\* pending, and attachment and preview are both those of the second file.
C31_Witness ==
    /\ lastStep.op = "handleFileChange.set"
    /\ Cardinality(objectURLs) = 2
    /\ imageData # NoImage
    /\ imagePreview # None
    /\ \E o \in objectURLs : o.url = imagePreview /\ o.file = lastStep.val

\* C32 (as claimed): the step that turns a file away, or that handles a
\* failed read, leaves the pending attachment and preview as they were,
\* starts no network request, raises one notification and leaves the
\* uploading flag false.
C32_RejectedSelectionFrame ==
    [][lastStep'.op \in {"handleFileChange.reject", "handleFileChange.error"}
       => /\ imageData' = imageData
          /\ imagePreview' = imagePreview
          /\ UNCHANGED <<sendCalls, loadCalls, newThreadCalls, deleteCalls,
                         resolveCalls, listCalls>>
          /\ toasts' = 1
          /\ uploadingImage' = FALSE]_vars

\* C32 (amended): the step that turns a file away, or that handles a failed
\* read, leaves the pending attachment and preview as they were, starts no
\* network request and raises one notification; turning a file away leaves
\* the uploading flag as it was, which is false unless the read of another
\* file is in flight, and a failed read leaves it false.
C32_RejectedSelectionFrameAmended ==
    [][lastStep'.op \in {"handleFileChange.reject", "handleFileChange.error"}
       => /\ imageData' = imageData
          /\ imagePreview' = imagePreview
          /\ UNCHANGED <<sendCalls, loadCalls, newThreadCalls, deleteCalls,
                         resolveCalls, listCalls>>
          /\ toasts' = 1
          /\ IF lastStep'.op = "handleFileChange.reject"
             THEN /\ uploadingImage' = uploadingImage
                  /\ encodeCalls = {} => uploadingImage' = FALSE
             ELSE uploadingImage' = FALSE]_vars

\* C32 witness: a file has just been turned away while an attachment was
\* pending and the read of another file was in flight.
C32_Witness ==
    /\ lastStep.op = "handleFileChange.reject"
    /\ validate(lastStep.val) # "ok"
    /\ imageData # NoImage
    /\ imagePreview # None
    /\ encodeCalls # {}
    /\ uploadingImage
    /\ toasts = 1

\* C33: the form issues the payout request exactly when the amount in the
\* box is a number greater than 0, at most the available balance and at
\* least the minimum payout, and otherwise sets an error and issues nothing;
\* a failed request leaves the modal open with an error and the loading flag
\* false and calls no prop; handleSubmit calls onPayoutRequested and onClose
\* on success only.
C33_PayoutRequestGuarded ==
    [][LET number == parseFloat(payoutAmount)
           acceptable == /\ payoutAmount # <<>>
                         /\ ~number.nan
                         /\ number.v > 0
                         /\ number.v <= availableBalance
                         /\ number.v >= minimumPayout
       IN  /\ payoutCalls' \ payoutCalls # {} => acceptable
           /\ lastStep'.op \in {"handleSubmit.invalid", "handleSubmit.request"}
                 => IF acceptable
                    THEN payoutCalls' = payoutCalls \cup {number.v}
                    ELSE error' # None /\ payoutCalls' = payoutCalls
           /\ lastStep'.op \in {"handleSubmit.invalid", "handleSubmit.request",
                                "handleSubmit.error"}
                 => callbacks' = {}
           /\ lastStep'.op = "handleSubmit.error"
                 => isOpen' /\ error' # None /\ ~payoutIsLoading'
           /\ "onPayoutRequested" \in callbacks' => lastStep'.op = "handleSubmit.ok"
           /\ lastStep'.op = "handleSubmit.ok"
                 => callbacks' = {"onPayoutRequested", "onClose"}]_vars

\* C33 witness: the request for an amount equal to the whole available
\* balance has just failed, and the modal is open with the error.
C33_Witness ==
    /\ lastStep.op = "handleSubmit.error"
    /\ payoutAmount # <<>>
    /\ parseFloat(payoutAmount).v = availableBalance
    /\ isOpen
    /\ error # None
    /\ ~payoutIsLoading

\* C34: for a positive amount in the box the fee is the smaller of 2.9% of
\* the amount plus 30 cents and the amount, so it lies between 0 and the
\* amount and the net amount, amount minus fee, is not negative; for an
\* empty box fee and net amount are both 0.
C34_FeeWithinAmount ==
    LET number == parseFloat(payoutAmount)
        percent == (number.v \div 1000) * 29
        thirtyCents == 3 * (Dollar \div 10)
    IN  /\ (payoutAmount # <<>> /\ ~number.nan /\ number.v > 0)
              => /\ number.v % 1000 = 0
                 /\ IF percent + thirtyCents <= number.v
                    THEN fee = percent + thirtyCents
                    ELSE fee = number.v
                 /\ 0 <= fee
                 /\ fee <= number.v
                 /\ netAmount = number.v - fee
                 /\ netAmount >= 0
        /\ (payoutAmount = <<>> \/ number.nan) => (fee = 0 /\ netAmount = 0)

\* C34 witness: the box holds 30 cents, an amount below its uncapped fee, so
\* the cap sets the fee to the amount and the net amount to 0.
C34_Witness ==
    /\ payoutAmount = <<"0", ".", "3">>
    /\ fee = (30 * Dollar) \div 100
    /\ netAmount = 0
    /\ lastStep.op = "setPayoutAmount"

====
